---- MODULE Spec2Model ----
(***************************************************************************)
(* Model of the instance re-identification and virtual-camera engine of    *)
(* video-cursor: ObjectProcessor / ObjectTracker (src/object.py) and the   *)
(* FaceTracker / gallery builder of FaceProcessor (src/face_processor.py). *)
(*                                                                         *)
(* Floats (zoom, momentum, scores) are fixed-point integers: 1.0 is Scale  *)
(* for the camera, 100 for scores and confidences.  A frame is its index   *)
(* in the video; a detection is [bbox, class_name, confidence].            *)
(***************************************************************************)
EXTENDS Integers, Sequences, FiniteSets, TLC

\* ------------------------------------------------------------------ bounds

\* Longest video (frames) a run is checked on.
MaxFrames == 7

\* Most find_target calls made on one tracker.
MaxCalls == 3

\* Longest video (frames) of a run with a designated target.
MaxTargetedFrames == 2

\* process_and_save calls made on one processor.
MaxRuns == 2

\* Longest video (frames) a gallery is built from.
MaxGalleryFrames == 5

\* ------------------------------------------------------- program constants

\* self.frame_skip = 3
frame_skip == 3
\* decay_rate = 0.92 (percent)
decay_rate == 92
\* center_pull = 0.02 (percent)
center_pull == 2
\* smoothing_factor = 0.15 (percent)
smoothing_factor == 15
\* zoom_smoothing = 0.08 (percent)
zoom_smoothing == 8
\* self.detection_scale = 0.75 (percent)
detection_scale == 75

\* self.tracking_threshold = 0.3 (percent)
tracking_threshold == 30
\* self.position_weight = 0.4 (percent)
position_weight == 40
\* len(self.object_centers_history[obj_id]) > 10
history_capacity == 10
\* score > 0.6 in find_target_face (percent)
face_threshold == 60

\* ThreadPoolExecutor(max_workers=4)
max_workers == 4
\* if w < 20 or h < 20: continue
min_crop_side == 20
\* _objects_similar_fast(..., threshold=0.45) (percent)
similar_threshold == 45
\* combined_score > (threshold * 0.85) (percent)
relaxed_percent == 85
\* (correlation * 0.6) (percent)
gray_weight == 60
\* (color_correlation * 0.4) (percent)
color_weight == 40
\* _faces_similar(..., threshold=0.6) (percent)
faces_similar_threshold == 60

\* Fixed-point unit of the camera's floats: 1.0 is Scale.
Scale == 1000 * 1000

\* The return value of a call that has not returned yet.
None == "None"

\* ------------------------------------------------------------ Python helpers

Max(a, b) == IF a >= b THEN a ELSE b

Min(a, b) == IF a <= b THEN a ELSE b

Abs(a) == IF a >= 0 THEN a ELSE -a

\* int(a / b) on floats: the quotient truncated toward zero (b # 0).
TruncDiv(a, b) ==
    IF (a >= 0) = (b > 0) THEN Abs(a) \div Abs(b) ELSE -(Abs(a) \div Abs(b))

\* One index of a slice a[i:...] on an axis of length n: negative indices
\* count from the end, and the result is clipped to 0..n.
SliceIndex(i, n) == IF i < 0 THEN Max(0, i + n) ELSE Min(i, n)

\* Number of elements of a[start:stop] on an axis of length n.
SliceLen(start, stop, n) == Max(0, SliceIndex(stop, n) - SliceIndex(start, n))

\* The members of s that satisfy Test, in order (a list comprehension).
Filter(s, Test(_)) == SelectSeq(s, Test)

\* Index of the first element of the non-empty list s with the largest key:
\* what max(s, key=...) and sorted(s, key=..., reverse=True)[0] select.
FirstMaxIndex(s, Key(_)) ==
    CHOOSE i \in 1..Len(s) :
        /\ \A j \in 1..Len(s) : Key(s[j]) <= Key(s[i])
        /\ \A j \in 1..(i - 1) : Key(s[j]) < Key(s[i])

Area(d) == d.bbox[3] * d.bbox[4]

ConfArea(d) == d.confidence * Area(d)

\* ------------------------------------------------------------------ inputs

\* Frame sizes (width, height) of the videos checked.
FrameSizes == {<<640, 480>>, <<64, 48>>, <<9, 7>>}

\* zoom_factor arguments callers pass to enable_object_zoom, in Scale units:
\* -4.0, 0.0, 0.5, 1.0, 2.0, 3.0 (the method accepts any number).
ZoomFactors == {-4 * Scale, 0, Scale \div 2, Scale, 2 * Scale, 3 * Scale}

\* The length of the end-to-end scenario videos, and the frame of a scenario
\* after which the detector stops reporting.
ScenarioFrames == 10

ScenarioHalf == 5

\* Frame sizes of the scenario videos; on the second the stationary detection
\* sits at the centre of the frame.
ScenarioFrameSizes == {<<640, 480>>, <<250, 250>>}

\* blur_strength arguments callers pass to enable_object_blur.
BlurStrengths == {36, 50, 51}

Det(b, c, conf) == [bbox |-> b, class_name |-> c, confidence |-> conf]

\* What the detector reports on the detection-scale copy of a frame.
RawDetLists ==
    { <<>>,
      << Det(<<8, 8, 15, 15>>, "person", 90) >>,
      << Det(<<2, 20, 12, 9>>, "car", 80), Det(<<24, 3, 18, 30>>, "person", 70) >>,
      << Det(<<2, 20, 12, 9>>, "car", 80) >>,
      << Det(<<15, 6, 9, 9>>, "face", 100) >>,
      << Det(<<75, 75, 38, 38>>, "person", 95) >>,
      << Det(<<1, 1, 3, 2>>, "person", 60), Det(<<3, 2, 3, 3>>, "truck", 50) >> }

\* The lists whose boxes lie inside the detection-scale copy of a w x h frame.
RawDetListsFor(w, h) ==
    { l \in RawDetLists :
        \A i \in 1..Len(l) :
            /\ l[i].bbox[1] + l[i].bbox[3] <= (w * detection_scale) \div 100
            /\ l[i].bbox[2] + l[i].bbox[4] <= (h * detection_scale) \div 100 }

\* The stationary detection of the end-to-end scenarios as the detector reports
\* it on the detection-scale copy: (100,100,50,50) on the frame.
ScenarioDetLists ==
    { <<>>,
      << Det(<<75, 75, 38, 38>>, "person", 95) >>,
      << Det(<<75, 75, 38, 38>>, "face", 100) >> }

\* Packages the module tries to import for its detectors.
Packages == {"mediapipe", "mtcnn", "ultralytics"}

\* detection_type arguments of ObjectProcessor(...).
DetectionTypes == {"faces", "Faces", "objects", "people"}

\* Ids of gallery entries a caller can designate as the target.
TargetIds == {"person_0", "car_1"}

FaceIds == {"face_0"}

\* The frame size the trackers are checked on.
TrackFrameSize == <<64, 48>>

\* A detection on a frame whose features correlate by corr (1/100) with the
\* target's template; nan: the correlation is NaN.
Cand(b, c, conf, corr, nan) ==
    [bbox |-> b, class_name |-> c, confidence |-> conf, corr |-> corr, nan |-> nan]

\* Detection lists find_target_object is called with.
TrackDetLists ==
    { <<>>,
      << Cand(<<20, 10, 20, 20>>, "person", 85, 95, FALSE) >>,
      << Cand(<<10, 10, 20, 20>>, "person", 90, 10, FALSE),
         Cand(<<30, 10, 20, 20>>, "person", 80, 90, FALSE) >>,
      << Cand(<<20, 10, 20, 20>>, "dog", 70, -50, FALSE) >>,
      << Cand(<<70, 10, 5, 5>>, "person", 60, 95, FALSE) >>,
      << Cand(<<4, 4, 30, 30>>, "car", 75, 20, FALSE),
         Cand(<<20, 10, 20, 30>>, "person", 88, 0, TRUE) >> }

\* A detected face whose histogram correlates by corr (1/100) with the template.
Face(b, corr) == [bbox |-> b, corr |-> corr]

\* What the detector reports (detection scale) on a video that shows the
\* designated target: a car like the target beside a person, two persons of
\* which the second is like the target, one person like the target.
CandidateDetLists ==
    { <<>>,
      << Cand(<<3, 15, 12, 9>>, "car", 80, 90, FALSE),
         Cand(<<24, 3, 18, 30>>, "person", 70, 10, FALSE) >>,
      << Cand(<<3, 3, 12, 24>>, "person", 90, 10, FALSE),
         Cand(<<30, 3, 12, 24>>, "person", 80, 90, FALSE) >>,
      << Cand(<<15, 6, 15, 24>>, "person", 85, 95, FALSE) >> }

\* Face lists find_target_face is called with.
TrackFaceLists ==
    { <<>>,
      << Face(<<20, 10, 30, 30>>, 80) >>,
      << Face(<<4, 4, 32, 32>>, 30), Face(<<20, 10, 30, 30>>, 50) >> }

\* ------------------------------------------------------------------- state

VARIABLES
    \* ObjectProcessor: the opened video
    width, height, total_frames, cap_pos,
    \* ObjectProcessor: effect toggles
    enable_zoom, zoom_factor, enable_blur, blur_strength,
    \* ObjectProcessor: camera state
    prev_center_x, prev_center_y, current_zoom, zoom_momentum,
    \* process_and_save: position in the run, its locals, the sink, its return
    pc, frame_count, last_detections, written, released, result,
    \* history: one record per frame the loop body was entered for
    trace,
    \* the processor's target and its tracker (ObjectTracker, FaceTracker)
    target_object_id, object_templates, object_centers_history,
    target_face_id, face_templates,
    \* history: the last find_target call and the number of calls made
    call, n_calls,
    \* history: the operation that designated target_object_id
    target_source,
    \* extract_objects / extract_faces: the sampled frames, the worker pool,
    \* the position of the main thread, its locals and its return value
    builder, frames_to_process, next_task, running, futures, gpc, batch_results,
    cursor, unique_objects, object_id_counter, gallery,
    \* history: the most workers of the pool that ran at the same time
    peak_running,
    \* the packages that can be imported, the detection_type the processor was
    \* asked for, the detector __init__ built, what the opened video shows
    available, detection_type, detector, video,
    \* a second processor instance that is not being stepped, and the number
    \* of the instance that is
    other, current,
    \* history: the blur_strength argument of the last enable_object_blur call
    \* (before any call, the strength __init__ sets)
    blur_argument,
    \* history: the number of process_and_save calls made on the processor
    runs

runVars == <<width, height, total_frames, cap_pos,
             enable_zoom, zoom_factor, enable_blur, blur_strength,
             prev_center_x, prev_center_y, current_zoom, zoom_momentum,
             pc, frame_count, last_detections, written, released, result, trace>>

trackVars == <<target_object_id, object_templates, object_centers_history,
               target_face_id, face_templates, call, n_calls, target_source>>

galVars == <<builder, frames_to_process, next_task, running, futures, gpc, batch_results,
             cursor, unique_objects, object_id_counter, gallery, peak_running>>

envVars == <<available, detection_type, detector, video>>

instVars == <<other, current>>

argVars == <<blur_argument, runs>>

vars == <<runVars, trackVars, galVars, envVars, instVars, argVars>>

\* ------------------------------------------------------------------ camera

Camera(x, y, z, m) ==
    [prev_center_x |-> x, prev_center_y |-> y, current_zoom |-> z, zoom_momentum |-> m]

\* The processor's current camera state.
CameraNow == Camera(prev_center_x, prev_center_y, current_zoom, zoom_momentum)

NoCrop == <<>>

\* _apply_zoom: the crop rectangle <<crop_x, crop_y, crop_width, crop_height>>
\* taken from a w x h frame; raised when the division by zoom or the resize of an
\* empty crop raises.
_apply_zoom(w, h, center_x, center_y, zoom) ==
    IF zoom = 0 THEN [raised |-> TRUE, crop |-> NoCrop]
    ELSE
      LET crop_width  == TruncDiv(w * Scale, zoom)
          crop_height == TruncDiv(h * Scale, zoom)
          crop_x == Max(0, Min(center_x - (crop_width \div 2), w - crop_width))
          crop_y == Max(0, Min(center_y - (crop_height \div 2), h - crop_height))
          rows == SliceLen(crop_y, crop_y + crop_height, h)
          cols == SliceLen(crop_x, crop_x + crop_width, w)
      IN  [raised |-> (rows = 0 \/ cols = 0),
           crop   |-> <<crop_x, crop_y, crop_width, crop_height>>]

\* _handle_no_objects with the zoom decayed but not held at 1.0.
handle_no_objects_unclamped(w, h, cam) ==
    Camera(TruncDiv((100 - center_pull) * cam.prev_center_x + center_pull * (w \div 2), 100),
           TruncDiv((100 - center_pull) * cam.prev_center_y + center_pull * (h \div 2), 100),
           (cam.current_zoom * decay_rate) \div 100,
           (cam.zoom_momentum * 9) \div 10)

\* A decay that shrinks the excess of the zoom over 1.0 by the decay rate: the
\* zoom approaches 1.0 and does not get there.
handle_no_objects_asymptotic(w, h, cam) ==
    Camera(TruncDiv((100 - center_pull) * cam.prev_center_x + center_pull * (w \div 2), 100),
           TruncDiv((100 - center_pull) * cam.prev_center_y + center_pull * (h \div 2), 100),
           IF cam.current_zoom > Scale
           THEN Scale + ((cam.current_zoom - Scale) * decay_rate) \div 100 + 1
           ELSE Scale,
           (cam.zoom_momentum * 9) \div 10)

\* _handle_no_objects: the camera after one decay step.
_handle_no_objects(w, h, cam) ==
    Camera(TruncDiv((100 - center_pull) * cam.prev_center_x + center_pull * (w \div 2), 100),
           TruncDiv((100 - center_pull) * cam.prev_center_y + center_pull * (h \div 2), 100),
           Max(Scale, (cam.current_zoom * decay_rate) \div 100),
           (cam.zoom_momentum * 9) \div 10)

\* _apply_zoom_to_object_smooth: the camera after one step toward the box of
\* target_detection, and the crop that _apply_zoom then takes.
_apply_zoom_to_object_smooth(w, h, cam, zf, target_detection) ==
    LET obj_center_x == target_detection.bbox[1] + (target_detection.bbox[3] \div 2)
        obj_center_y == target_detection.bbox[2] + (target_detection.bbox[4] \div 2)
        target_center_x ==
            TruncDiv((100 - smoothing_factor) * cam.prev_center_x
                     + smoothing_factor * obj_center_x, 100)
        target_center_y ==
            TruncDiv((100 - smoothing_factor) * cam.prev_center_y
                     + smoothing_factor * obj_center_y, 100)
        target_zoom ==
            ((100 - zoom_smoothing) * cam.current_zoom + zoom_smoothing * zf) \div 100
        z == _apply_zoom(w, h, target_center_x, target_center_y, target_zoom)
    IN  [cam    |-> Camera(target_center_x, target_center_y, target_zoom, cam.zoom_momentum),
         raised |-> z.raised,
         crop   |-> z.crop]

\* ------------------------------------------------------------ construction

\* detection_type.lower()
lower(t) == IF t = "Faces" THEN "faces" ELSE t

\* The detector ObjectProcessor.__init__ builds for the lowered detection_type
\* with the packages avail, or the ImportError it raises.
build_detector(dtype, avail) ==
    IF dtype = "faces" THEN
        [raised |-> FALSE,
         detector |-> IF "mediapipe" \in avail THEN "mediapipe"
                      ELSE IF "mtcnn" \in avail THEN "mtcnn"
                      ELSE "haar"]
    ELSE IF "ultralytics" \in avail THEN [raised |-> FALSE, detector |-> "yolo"]
    ELSE [raised |-> TRUE, detector |-> "none"]

\* --------------------------------------------------------------- detection

\* The lists the detector can report on the video this processor has opened.
VideoDetLists ==
    CASE video = "scenario" -> ScenarioDetLists
      [] video = "candidates" -> CandidateDetLists
      [] OTHER -> RawDetLists

\* detect_objects_in_frame: _detect_faces labels every detection 'face',
\* _detect_objects_yolo uses the COCO labels, which have no 'face'.
OfDetectionType(l) ==
    \A i \in 1..Len(l) : (l[i].class_name = "face") <=> (detection_type = "faces")

\* The boxes of l lie inside the detection-scale copy of a w x h frame.
FitsFrame(l, w, h) ==
    \A i \in 1..Len(l) :
        /\ l[i].bbox[1] + l[i].bbox[3] <= (w * detection_scale) \div 100
        /\ l[i].bbox[2] + l[i].bbox[4] <= (h * detection_scale) \div 100

\* detect_objects_in_frame(frame, use_small_scale=True): the boxes the detector
\* found on the detection-scale copy, divided by detection_scale and truncated.
detect_objects_in_frame(raw) ==
    [i \in 1..Len(raw) |->
        [raw[i] EXCEPT !.bbox =
            <<TruncDiv(raw[i].bbox[1] * 100, detection_scale),
              TruncDiv(raw[i].bbox[2] * 100, detection_scale),
              TruncDiv(raw[i].bbox[3] * 100, detection_scale),
              TruncDiv(raw[i].bbox[4] * 100, detection_scale)>>]]

IsPerson(d) == d.class_name = "person"

IsVehicle(d) == d.class_name \in {"car", "truck", "bus", "motorcycle"}

\* ------------------------------------------------------------ frame effects

\* The Gaussian kernel size _process_frame_fast derives from blur_strength.
blur_kernel_size(bs) ==
    LET k == Max(5, Min(51, bs \div 3))
    IN  IF k % 2 = 0 THEN k + 1 ELSE k

\* The regions _process_frame_fast blurs: every vehicle box, clipped to the frame.
BlurVehicles(w, h, bs, vehicle_detections) ==
    LET Clip(d) ==
            LET x  == Max(0, d.bbox[1])
                y  == Max(0, d.bbox[2])
                bw == Min(d.bbox[3], w - x)
                bh == Min(d.bbox[4], h - y)
            IN  [bbox |-> <<x, y, bw, bh>>, kernel |-> blur_kernel_size(bs)]
        clipped == [i \in 1..Len(vehicle_detections) |-> Clip(vehicle_detections[i])]
        Visible(r) == r.bbox[3] > 0 /\ r.bbox[4] > 0
    IN  Filter(clipped, Visible)

\* The detection _process_frame_fast hands to the camera: the person with the
\* largest confidence * area, else the largest vehicle, else none.
fast_target_detection(detections) ==
    LET people_detections  == Filter(detections, IsPerson)
        vehicle_detections == Filter(detections, IsVehicle)
    IN  IF Len(people_detections) > 0
        THEN <<people_detections[FirstMaxIndex(people_detections, ConfArea)]>>
        ELSE IF Len(vehicle_detections) > 0
        THEN <<vehicle_detections[FirstMaxIndex(vehicle_detections, Area)]>>
        ELSE <<>>

\* What one call of _process_frame_fast does: the camera it leaves, which camera
\* step it took, the crop it rendered (NoCrop: the frame is passed through), the
\* regions it blurred, and whether it raised.
FrameResult(cam, step, raised, crop, blurred) ==
    [cam |-> cam, step |-> step, raised |-> raised, crop |-> crop, blurred |-> blurred]

_process_frame_fast(w, h, cam, ez, zf, eb, bs, detections) ==
    IF Len(detections) = 0 THEN
        IF ez THEN
            LET c == _handle_no_objects(w, h, cam)
                z == _apply_zoom(w, h, c.prev_center_x, c.prev_center_y, c.current_zoom)
            IN  IF c.current_zoom > Scale
                THEN FrameResult(c, "decay", z.raised, z.crop, <<>>)
                ELSE FrameResult(c, "decay", FALSE, NoCrop, <<>>)
        ELSE FrameResult(cam, "none", FALSE, NoCrop, <<>>)
    ELSE
        LET people_detections  == Filter(detections, IsPerson)
            vehicle_detections == Filter(detections, IsVehicle)
        IN  IF Len(people_detections) > 0 THEN
                LET target_detection ==
                        people_detections[FirstMaxIndex(people_detections, ConfArea)]
                    blurred == IF eb THEN BlurVehicles(w, h, bs, vehicle_detections)
                               ELSE <<>>
                    s == _apply_zoom_to_object_smooth(w, h, cam, zf, target_detection)
                IN  IF ez THEN FrameResult(s.cam, "smooth", s.raised, s.crop, blurred)
                    ELSE FrameResult(cam, "none", FALSE, NoCrop, blurred)
            ELSE IF Len(vehicle_detections) > 0 THEN
                LET largest_vehicle ==
                        vehicle_detections[FirstMaxIndex(vehicle_detections, Area)]
                    s == _apply_zoom_to_object_smooth(w, h, cam, zf, largest_vehicle)
                IN  IF ez THEN FrameResult(s.cam, "smooth", s.raised, s.crop, <<>>)
                    ELSE FrameResult(cam, "none", FALSE, NoCrop, <<>>)
            ELSE FrameResult(cam, "none", FALSE, NoCrop, <<>>)

\* ----------------------------------------------------------------- tracker

\* Python values: None is the empty list, a value v is <<v>>.
Some(v) == <<v>>

\* The result of a call: it raised, or it returned value.
Raised == [raised |-> TRUE, value |-> <<>>]

Returned(v) == [raised |-> FALSE, value |-> v]

\* detections[0]: IndexError on an empty list.
PyFirst(l) == IF Len(l) = 0 THEN Raised ELSE Returned(Some(l[1]))

\* max(l, key=Key): ValueError on an empty list.
PyMax(l, Key(_)) == IF Len(l) = 0 THEN Raised ELSE Returned(Some(l[FirstMaxIndex(l, Key)]))

\* The largest r in lo..hi with r * r <= n (lo * lo <= n).
RECURSIVE SqrtBetween(_, _, _)
SqrtBetween(n, lo, hi) ==
    IF lo >= hi THEN lo
    ELSE LET mid == (lo + hi + 1) \div 2
         IN  IF mid * mid <= n THEN SqrtBetween(n, mid, hi)
             ELSE SqrtBetween(n, lo, mid - 1)

\* np.sqrt(n) in hundredths, rounded down.
Sqrt100(n) == SqrtBetween(n * 10000, 0, 40000)

\* The centre (x + w//2, y + h//2) of a box.
Center(bbox) == <<bbox[1] + (bbox[3] \div 2), bbox[2] + (bbox[4] \div 2)>>

\* _find_largest_person without the "if detections" guard on detections[0].
find_largest_person_unguarded(detections) ==
    LET people == Filter(detections, IsPerson)
    IN  IF Len(people) = 0 THEN PyFirst(detections) ELSE PyMax(people, Area)

\* ObjectTracker._find_largest_person
_find_largest_person(detections) ==
    LET people == Filter(detections, IsPerson)
    IN  IF Len(people) = 0
        THEN IF Len(detections) > 0 THEN PyFirst(detections) ELSE Returned(<<>>)
        ELSE PyMax(people, Area)

\* ObjectTracker._get_last_center
_get_last_center(history) ==
    IF Len(history) > 0 THEN Some(history[Len(history)]) ELSE <<>>

\* _update_center without the eviction of the oldest centre.
update_center_unbounded(history, center) == Append(history, center)

\* ObjectTracker._update_center
_update_center(history, center) ==
    LET h == Append(history, center)
    IN  IF Len(h) > history_capacity THEN Tail(h) ELSE h

\* position_score of a candidate, in 1/10000: 1.0 without a last centre, else
\* max(0, 1 - distance / max_distance).
position_score(d, last_center, w, h) ==
    IF last_center = <<>> THEN 10000
    ELSE LET curr_center == Center(d.bbox)
             dx == curr_center[1] - last_center[1][1]
             dy == curr_center[2] - last_center[1][2]
             distance == Sqrt100(dx * dx + dy * dy)
             max_distance == Max(h, w)
         IN  Max(0, 10000 - (distance * 100) \div max_distance)

\* feature_score of a candidate, in 1/100: the correlation of its features
\* with the template's, 0 when that is NaN.
feature_score(d) == IF d.nan THEN 0 ELSE d.corr

\* A combined_score that is the position_score alone.
combined_score_position_only(d, last_center, w, h) ==
    100 * position_score(d, last_center, w, h)

\* combined_score of a candidate, in 1/1000000.
combined_score(d, last_center, w, h) ==
    (100 - position_weight) * feature_score(d) * 100
        + position_weight * position_score(d, last_center, w, h)

\* obj_region.size == 0 for obj_region = frame[y:y+h, x:x+w]
RegionEmpty(bbox, w, h) ==
    SliceLen(bbox[2], bbox[2] + bbox[4], h) * SliceLen(bbox[1], bbox[1] + bbox[3], w) = 0

\* The loop of find_target_object over detections[i..]: the best match (None
\* or a detection) and its score.
RECURSIVE BestMatch(_, _, _, _, _, _, _)
BestMatch(detections, i, last_center, w, h, best_score, best_match) ==
    IF i > Len(detections) THEN [best_score |-> best_score, best_match |-> best_match]
    ELSE
        LET d == detections[i]
            c == combined_score(d, last_center, w, h)
        IN  IF RegionEmpty(d.bbox, w, h)
            THEN BestMatch(detections, i + 1, last_center, w, h, best_score, best_match)
            ELSE IF c > best_score /\ c > tracking_threshold * 10000
            THEN BestMatch(detections, i + 1, last_center, w, h, c, Some(d))
            ELSE BestMatch(detections, i + 1, last_center, w, h, best_score, best_match)

\* A find_target_object that also records the centre of the detection it
\* falls back to when no candidate is accepted.
find_target_object_tracks_fallback(detections, w, h, target, templates, history) ==
    LET fallback == _find_largest_person(detections)
    IN  IF target = None \/ target \notin templates THEN
            [raised |-> FALSE,
             value |-> IF Len(detections) > 0 THEN fallback.value ELSE <<>>,
             accepted |-> FALSE, history |-> history]
        ELSE
            LET b == BestMatch(detections, 1, _get_last_center(history), w, h, 0, <<>>)
                accepted == b.best_match # <<>>
                chosen == IF accepted THEN b.best_match ELSE fallback.value
            IN  [raised   |-> FALSE,
                 value    |-> chosen,
                 accepted |-> accepted,
                 history  |-> IF Len(chosen) > 0
                              THEN _update_center(history, Center(chosen[1].bbox))
                              ELSE history]

\* ObjectTracker.find_target_object on a w x h frame: whether it raised, what
\* it returned, whether a match was accepted, and the target's centre history
\* after the call.
find_target_object(detections, w, h, target, templates, history) ==
    IF target = None \/ target \notin templates THEN
        LET r == IF Len(detections) > 0 THEN _find_largest_person(detections)
                 ELSE Returned(<<>>)
        IN  [raised |-> r.raised, value |-> r.value, accepted |-> FALSE,
             history |-> history]
    ELSE
        LET b == BestMatch(detections, 1, _get_last_center(history), w, h, 0, <<>>)
            accepted == b.best_match # <<>>
            fallback == _find_largest_person(detections)
        IN  [raised   |-> ~accepted /\ fallback.raised,
             value    |-> IF accepted THEN b.best_match ELSE fallback.value,
             accepted |-> accepted,
             history  |-> IF accepted
                          THEN _update_center(history, Center(b.best_match[1].bbox))
                          ELSE history]

\* The loop of find_target_face over faces[i..].
RECURSIVE BestFace(_, _, _, _)
BestFace(faces, i, best_score, best_match) ==
    IF i > Len(faces) THEN [best_score |-> best_score, best_match |-> best_match]
    ELSE
        LET f == faces[i]
        IN  IF f.corr > best_score /\ f.corr > face_threshold
            THEN BestFace(faces, i + 1, f.corr, Some(f))
            ELSE BestFace(faces, i + 1, best_score, best_match)

\* FaceTracker.find_target_face: whether it raised, what it returned and
\* whether a match was accepted.
find_target_face(faces, target, templates) ==
    IF target = None \/ target \notin templates THEN
        LET r == IF Len(faces) > 0 THEN PyFirst(faces) ELSE Returned(<<>>)
        IN  [raised |-> r.raised, value |-> r.value, accepted |-> FALSE]
    ELSE
        LET b == BestFace(faces, 1, 0, <<>>)
        IN  [raised |-> FALSE, value |-> b.best_match, accepted |-> b.best_match # <<>>]

\* ------------------------------------------------------------- the run loop

\* ObjectProcessor.__init__ on a video of some size and length: effects off,
\* the camera at the frame centre with zoom 1.0 and no momentum.
ProcessorFields(sizes, lengths) ==
    /\ \E size \in sizes :
          /\ width = size[1]
          /\ height = size[2]
          /\ prev_center_x = size[1] \div 2
          /\ prev_center_y = size[2] \div 2
    /\ total_frames \in lengths
    /\ cap_pos = 0
    /\ enable_zoom = FALSE
    /\ zoom_factor = 2 * Scale
    /\ enable_blur = FALSE
    /\ blur_strength = 51
    /\ blur_argument = 51
    /\ runs = 0
    /\ current_zoom = Scale
    /\ zoom_momentum = 0
    /\ frame_count = 0
    /\ last_detections = <<>>
    /\ written = <<>>
    /\ released = FALSE
    /\ result = None
    /\ trace = <<>>

\* The processor after construction: no run has started.
ProcessorInit(sizes, lengths) ==
    ProcessorFields(sizes, lengths) /\ pc = "idle"

\* ObjectTracker.__init__ and FaceTracker.__init__; no target is designated.
TrackerInit ==
    /\ target_object_id = None
    /\ object_templates = {}
    /\ object_centers_history = [id \in TargetIds |-> <<>>]
    /\ target_face_id = None
    /\ face_templates = {}
    /\ call = [op |-> "none", target |-> None, has_template |-> FALSE,
               detections |-> <<>>, raised |-> FALSE, value |-> <<>>,
               accepted |-> FALSE, source |-> "none", last_center |-> <<>>]
    /\ n_calls = 0
    /\ target_source = "none"

\* No gallery is being built.
GalleryIdle ==
    /\ builder = None
    /\ frames_to_process = <<>>
    /\ next_task = 1
    /\ running = {}
    /\ futures = <<>>
    /\ gpc = "idle"
    /\ batch_results = <<>>
    /\ cursor = 1
    /\ unique_objects = <<>>
    /\ object_id_counter = 0
    /\ gallery = <<>>
    /\ peak_running = 0

\* The rest of ObjectProcessor.__init__ with every package installed: the
\* detector of the requested type is built; the video is one of videos.
Constructed(types, videos) ==
    /\ available = Packages
    /\ detection_type \in types
    /\ detector = build_detector(detection_type, available).detector
    /\ video \in videos

\* There is one processor instance.
SingleInstance == other = <<>> /\ current = 1

Init ==
    /\ ProcessorInit(FrameSizes, 0..MaxFrames) /\ TrackerInit /\ GalleryIdle
    /\ Constructed({"faces", "objects"}, {"mixed"}) /\ SingleInstance

\* enable_object_zoom(zoom_factor)
enable_object_zoom(zf) ==
    /\ pc = "idle"
    /\ enable_zoom' = TRUE
    /\ zoom_factor' = zf
    /\ UNCHANGED <<width, height, total_frames, cap_pos, enable_blur, blur_strength,
                   prev_center_x, prev_center_y, current_zoom, zoom_momentum,
                   pc, frame_count, last_detections, written, released, result, trace,
                   trackVars, galVars, envVars, instVars, argVars>>

\* enable_object_zoom(zoom_factor) called on a processor whose run has returned.
enable_object_zoom_again(zf) ==
    /\ pc \in {"done", "failed"}
    /\ enable_zoom' = TRUE
    /\ zoom_factor' = zf
    /\ UNCHANGED <<width, height, total_frames, cap_pos, enable_blur, blur_strength,
                   prev_center_x, prev_center_y, current_zoom, zoom_momentum,
                   pc, frame_count, last_detections, written, released, result, trace,
                   trackVars, galVars, envVars, instVars, argVars>>

\* enable_object_blur without the parity correction of the strength.
enable_object_blur_uncorrected(bs) ==
    /\ pc = "idle"
    /\ enable_blur' = TRUE
    /\ blur_strength' = bs
    /\ blur_argument' = bs
    /\ UNCHANGED <<runs, width, height, total_frames, cap_pos, enable_zoom, zoom_factor,
                   prev_center_x, prev_center_y, current_zoom, zoom_momentum,
                   pc, frame_count, last_detections, written, released, result, trace,
                   trackVars, galVars, envVars, instVars>>

\* enable_object_blur(blur_strength)
enable_object_blur(bs) ==
    /\ pc = "idle"
    /\ enable_blur' = TRUE
    /\ blur_strength' = IF bs % 2 = 0 THEN bs + 1 ELSE bs
    /\ blur_argument' = bs
    /\ UNCHANGED <<runs, width, height, total_frames, cap_pos, enable_zoom, zoom_factor,
                   prev_center_x, prev_center_y, current_zoom, zoom_momentum,
                   pc, frame_count, last_detections, written, released, result, trace,
                   trackVars, galVars, envVars, instVars>>

\* process_and_save, up to the loop: rewind the capture, open the writer,
\* frame_count = 0, last_detections = [].
process_and_save ==
    /\ pc = "idle"
    /\ pc' = "loop"
    /\ cap_pos' = 0
    /\ frame_count' = 0
    /\ last_detections' = <<>>
    /\ written' = <<>>
    /\ released' = FALSE
    /\ result' = None
    /\ trace' = <<>>
    /\ runs' = runs + 1
    /\ UNCHANGED <<width, height, total_frames, enable_zoom, zoom_factor, enable_blur,
                   blur_strength, prev_center_x, prev_center_y, current_zoom,
                   zoom_momentum, blur_argument, trackVars, galVars, envVars, instVars>>

\* process_and_save called again on a processor whose earlier run has returned:
\* the same statements; nothing in them touches the camera attributes.
process_and_save_again ==
    /\ pc \in {"done", "failed"}
    /\ runs < MaxRuns
    /\ pc' = "loop"
    /\ cap_pos' = 0
    /\ frame_count' = 0
    /\ last_detections' = <<>>
    /\ written' = <<>>
    /\ released' = FALSE
    /\ result' = None
    /\ trace' = <<>>
    /\ runs' = runs + 1
    /\ UNCHANGED <<width, height, total_frames, enable_zoom, zoom_factor, enable_blur,
                   blur_strength, prev_center_x, prev_center_y, current_zoom,
                   zoom_momentum, blur_argument, trackVars, galVars, envVars, instVars>>

\* if frame_count % self.frame_skip == 0: the detector runs on this frame.
DetectThisFrame(fc) == fc % frame_skip = 0

\* The detections of a frame when the cached list is not reused.
DetectionsWithoutCache(invoked, returned, last) == returned

\* The detections a frame is processed with: fresh ones, else last_detections.
DetectionsFor(invoked, returned, last) == IF invoked THEN returned ELSE last

\* An except clause that reports success.
except_return_success == "True"

\* What the except clause of process_and_save returns.
except_return == "False"

\* What process_and_save returns after the loop and out.release().
normal_return == "True"

\* A sink that gets only the frames the detector ran on.
out_write_detected_only(sink, frame) ==
    IF DetectThisFrame(frame) THEN Append(sink, frame) ELSE sink

\* out.write(frame): the sink after one more frame.
out_write(sink, frame) == Append(sink, frame)

\* What the detector can do on one frame: return a list or raise.
DetectorOutcomes(w, h) ==
    {[raises |-> FALSE, raw |-> l] :
        l \in {m \in VideoDetLists : FitsFrame(m, w, h) /\ OfDetectionType(m)}}
        \cup {[raises |-> TRUE, raw |-> <<>>]}

\* A frame on which the detector is not run.
NotInvoked == [raises |-> FALSE, raw |-> <<>>]

\* One iteration of the loop on a frame that cap.read() delivered: detect or
\* reuse, _process_frame_fast, out.write, frame_count += 1; an exception in
\* the detector or in the frame step ends the run in the except clause. The
\* loop never calls self.object_tracker (tracked), whatever the target is.
LoopFrame ==
    /\ pc = "loop"
    /\ cap_pos < total_frames
    /\ \E outcome \in IF DetectThisFrame(frame_count)
                      THEN DetectorOutcomes(width, height) ELSE {NotInvoked} :
        LET invoked    == DetectThisFrame(frame_count)
            det_raised == invoked /\ outcome.raises
            returned   == IF invoked /\ ~det_raised
                          THEN detect_objects_in_frame(outcome.raw) ELSE <<>>
            detections == DetectionsFor(invoked, returned, last_detections)
            r == IF det_raised
                 THEN FrameResult(CameraNow, "none", TRUE, NoCrop, <<>>)
                 ELSE _process_frame_fast(width, height, CameraNow, enable_zoom,
                                          zoom_factor, enable_blur, blur_strength,
                                          detections)
        IN  /\ cap_pos' = cap_pos + 1
            /\ last_detections' = IF invoked /\ ~det_raised THEN returned
                                  ELSE last_detections
            /\ prev_center_x' = r.cam.prev_center_x
            /\ prev_center_y' = r.cam.prev_center_y
            /\ current_zoom' = r.cam.current_zoom
            /\ zoom_momentum' = r.cam.zoom_momentum
            /\ trace' = Append(trace,
                  [idx |-> cap_pos, invoked |-> invoked, returned |-> returned,
                   detections |-> IF det_raised THEN <<>> ELSE detections,
                   step |-> r.step, zoom_before |-> current_zoom,
                   zoom_after |-> r.cam.current_zoom, crop |-> r.crop,
                   blurred |-> r.blurred, raised |-> r.raised,
                   center |-> <<r.cam.prev_center_x, r.cam.prev_center_y>>,
                   tracked |-> FALSE,
                   target |-> IF det_raised \/ ~enable_zoom THEN <<>>
                              ELSE fast_target_detection(detections)])
            /\ IF r.raised
               THEN /\ pc' = "failed"
                    /\ result' = except_return
                    /\ UNCHANGED <<written, frame_count>>
               ELSE /\ written' = out_write(written, cap_pos)
                    /\ frame_count' = frame_count + 1
                    /\ UNCHANGED <<pc, result>>
    /\ UNCHANGED <<width, height, total_frames, enable_zoom, zoom_factor, enable_blur,
                   blur_strength, released, trackVars, galVars, envVars, instVars, argVars>>

\* cap.read() returns ret = False, at the end of the stream or on a frame that
\* cannot be decoded: break, out.release(), return True.
LoopReadFails ==
    /\ pc = "loop"
    /\ cap_pos <= total_frames
    /\ pc' = "done"
    /\ released' = TRUE
    /\ result' = normal_return
    /\ UNCHANGED <<width, height, total_frames, cap_pos, enable_zoom, zoom_factor,
                   enable_blur, blur_strength, prev_center_x, prev_center_y,
                   current_zoom, zoom_momentum, frame_count, last_detections,
                   written, trace, trackVars, galVars, envVars, instVars, argVars>>

Next ==
    \/ \E zf \in ZoomFactors : enable_object_zoom(zf)
    \/ \E bs \in BlurStrengths : enable_object_blur(bs)
    \/ process_and_save
    \/ LoopFrame
    \/ LoopReadFails

Spec == Init /\ [][Next]_vars

\* The loop is one thread of control that keeps running until it returns.
FairSpec == Spec /\ WF_vars(LoopReadFails \/ LoopFrame)

\* ------------------------------------------------------------ tracker calls

\* set_target_object(obj_id): the target is set. The tracker is not told.
set_target_object(id) ==
    /\ target_object_id' = id
    /\ target_source' = "id"
    /\ UNCHANGED <<object_templates, object_centers_history, target_face_id,
                   face_templates, call, n_calls, runVars, galVars, envVars, instVars, argVars>>

\* set_target_object_from_image(input_image_path) when
\* find_similar_object_from_image returns target_id: set_target_object(target_id)
\* and return target_id; when it returns None nothing is set.
set_target_object_from_image(target_id) ==
    /\ IF target_id # None
       THEN /\ target_object_id' = target_id
            /\ target_source' = "image"
       ELSE UNCHANGED <<target_object_id, target_source>>
    /\ UNCHANGED <<object_templates, object_centers_history, target_face_id,
                   face_templates, call, n_calls, runVars, galVars, envVars, instVars, argVars>>

\* set_target_object_from_detected(obj_filename): the target is set and the
\* tracker gets the entry's image as template.
set_target_object_from_detected(id) ==
    /\ target_object_id' = id
    /\ object_templates' = object_templates \cup {id}
    /\ target_source' = "detected"
    /\ UNCHANGED <<object_centers_history, target_face_id, face_templates, call,
                   n_calls, runVars, galVars, envVars, instVars, argVars>>

\* set_target_face(face_id)
set_target_face(id) ==
    /\ target_face_id' = id
    /\ UNCHANGED <<target_object_id, object_templates, object_centers_history,
                   face_templates, call, n_calls, target_source, runVars, galVars,
                   envVars, instVars, argVars>>

\* set_target_face_from_detected(face_filename)
set_target_face_from_detected(id) ==
    /\ target_face_id' = id
    /\ face_templates' = face_templates \cup {id}
    /\ UNCHANGED <<target_object_id, object_templates, object_centers_history,
                   call, n_calls, target_source, runVars, galVars, envVars, instVars, argVars>>

\* One call of object_tracker.find_target_object on this frame's detections.
FindTargetObject ==
    /\ n_calls < MaxCalls
    /\ \E detections \in TrackDetLists :
        LET r == find_target_object(detections, width, height, target_object_id,
                                    object_templates,
                                    IF target_object_id \in TargetIds
                                    THEN object_centers_history[target_object_id]
                                    ELSE <<>>)
        IN  /\ call' = [op |-> "object", target |-> target_object_id,
                        has_template |-> target_object_id \in object_templates,
                        detections |-> detections, raised |-> r.raised,
                        value |-> r.value, accepted |-> r.accepted,
                        source |-> target_source,
                        last_center |-> _get_last_center(IF target_object_id \in TargetIds
                                                          THEN object_centers_history[target_object_id]
                                                          ELSE <<>>)]
            /\ object_centers_history' =
                  IF target_object_id \in TargetIds
                  THEN [object_centers_history EXCEPT ![target_object_id] = r.history]
                  ELSE object_centers_history
    /\ n_calls' = n_calls + 1
    /\ UNCHANGED <<target_object_id, object_templates, target_face_id, face_templates,
                   target_source, runVars, galVars, envVars, instVars, argVars>>

\* One call of face_tracker.find_target_face on this frame's faces.
FindTargetFace ==
    /\ n_calls < MaxCalls
    /\ \E faces \in TrackFaceLists :
        LET r == find_target_face(faces, target_face_id, face_templates)
        IN  call' = [op |-> "face", target |-> target_face_id,
                     has_template |-> target_face_id \in face_templates,
                     detections |-> faces, raised |-> r.raised,
                     value |-> r.value, accepted |-> r.accepted,
                     source |-> "none", last_center |-> <<>>]
    /\ n_calls' = n_calls + 1
    /\ UNCHANGED <<target_object_id, object_templates, object_centers_history,
                   target_face_id, face_templates, target_source, runVars, galVars,
                   envVars, instVars, argVars>>

TrackerSpecInit ==
    /\ ProcessorInit({TrackFrameSize}, {0}) /\ TrackerInit /\ GalleryIdle
    /\ Constructed({"objects"}, {"mixed"}) /\ SingleInstance

TrackerNext ==
    \/ \E id \in TargetIds : set_target_object(id)
    \/ \E id \in TargetIds : set_target_object_from_detected(id)
    \/ \E id \in TargetIds \cup {None} : set_target_object_from_image(id)
    \/ \E id \in FaceIds : set_target_face(id)
    \/ \E id \in FaceIds : set_target_face_from_detected(id)
    \/ FindTargetObject
    \/ FindTargetFace

TrackerSpec == TrackerSpecInit /\ [][TrackerNext]_vars

\* --------------------------------------------------------- gallery builder

\* The frame size galleries are built on.
GalleryFrameSize == <<640, 480>>

\* sample_frames arguments of extract_objects / extract_faces.
SampleFrames == {2, 15}

\* A detection whose crop frame[y:y+h, x:x+w] shows the picture img.
GDet(b, c, conf, img) ==
    [bbox |-> b, class_name |-> c, confidence |-> conf, image |-> img]

\* What the detector reports on the detection-scale copy of a sampled frame:
\* nothing; a person (p1) beside a car (c1); the same person again (p1b) with
\* another person (p2), a small car (c2) and a sliver (s1).
GalleryDetLists ==
    { <<>>,
      << GDet(<<30, 30, 30, 60>>, "person", 90, "p1"),
         GDet(<<200, 150, 45, 23>>, "car", 80, "c1") >>,
      << GDet(<<33, 30, 30, 60>>, "person", 88, "p1b"),
         GDet(<<100, 40, 18, 23>>, "person", 70, "p2"),
         GDet(<<300, 200, 19, 17>>, "car", 60, "c2"),
         GDet(<<5, 5, 14, 30>>, "person", 50, "s1") >> }

\* What detectMultiScale reports on a sampled frame: boxes and the face crops.
GalleryFaceLists ==
    { <<>>,
      << [bbox |-> <<100, 80, 60, 60>>, image |-> "f1"] >>,
      << [bbox |-> <<104, 82, 60, 60>>, image |-> "f1b"],
         [bbox |-> <<300, 90, 30, 30>>, image |-> "f2"] >>,
      << [bbox |-> <<310, 95, 48, 48>>, image |-> "f3"] >> }

\* cv2.compareHist(hist1, hist2, cv2.HISTCMP_CORREL) of the grey histograms of
\* obj1 and of obj2 resized to obj1's shape (1/100). Crops of one shape give
\* the same value in both orders; c1 and c2 differ in shape.
correlation(obj1, obj2) ==
    CASE obj1 = obj2 -> 100
      [] {obj1, obj2} = {"p1", "p1b"} -> 90
      [] {obj1, obj2} = {"p1", "p2"} -> 30
      [] {obj1, obj2} = {"p1b", "p2"} -> 28
      [] obj1 = "c2" /\ obj2 = "c1" -> 40
      [] obj1 = "c1" /\ obj2 = "c2" -> 41
      [] OTHER -> 10

\* cv2.compareHist of the hue histograms of the two crops (1/100).
color_correlation(obj1, obj2) ==
    CASE obj1 = obj2 -> 100
      [] {obj1, obj2} = {"p1", "p1b"} -> 85
      [] {obj1, obj2} = {"p1", "p2"} -> 70
      [] {obj1, obj2} = {"p1b", "p2"} -> 20
      [] obj1 = "c2" /\ obj2 = "c1" -> 35
      [] obj1 = "c1" /\ obj2 = "c2" -> 36
      [] OTHER -> -20

\* _objects_similar_fast(obj1, obj2): the grey correlation exceeds the
\* threshold, or the weighted sum with the hue correlation exceeds 85% of it.
_objects_similar_fast(obj1, obj2) ==
    \/ correlation(obj1, obj2) > similar_threshold
    \/ gray_weight * correlation(obj1, obj2)
         + color_weight * color_correlation(obj1, obj2)
           > similar_threshold * relaxed_percent

\* cv2.compareHist of the 256-bin grey histograms of face1 and of face2 resized
\* to face1's shape (1/100); f2 and f3 differ in shape.
face_correlation(face1, face2) ==
    CASE face1 = face2 -> 100
      [] {face1, face2} = {"f1", "f1b"} -> 80
      [] face1 = "f3" /\ face2 = "f2" -> 59
      [] face1 = "f2" /\ face2 = "f3" -> 62
      [] OTHER -> 30

\* _faces_similar(face1, face2)
_faces_similar(face1, face2) == face_correlation(face1, face2) > faces_similar_threshold

\* The frames kept by `if frame_count % frame_interval == 0` among the n frames
\* the capture delivers, with frame_interval = max(1, total_frames // sample_frames).
SampledFrames(n, total, sample_frames) ==
    LET frame_interval == Max(1, total \div sample_frames)
    IN  [k \in 1..((n + frame_interval - 1) \div frame_interval) |->
            (k - 1) * frame_interval]

\* A task of executor.map whose worker has not returned.
Pending == [done |-> FALSE, raises |-> FALSE, batch |-> <<>>]

\* What the detector can do in a worker: return a list or raise.
GalleryDetectorOutcomes ==
    {[raises |-> FALSE, raw |-> l] : l \in GalleryDetLists}
        \cup {[raises |-> TRUE, raw |-> <<>>]}

\* A gallery entry: unique_objects[object_id_counter] = {...} and its file.
Entry(id, img, class_name) ==
    [id |-> id, image |-> img, class_name |-> class_name,
     filename |-> class_name \o "_" \o ToString(id) \o ".jpg"]

\* list(unique_objects.keys())
Keys(stored) == [i \in 1..Len(stored) |-> stored[i].id]

\* extract_objects, up to the worker pool: the capture is rewound and read to
\* its end, the sampled frames are submitted to the pool.
extract_objects(sample_frames) ==
    /\ gpc = "idle"
    /\ pc = "idle"
    /\ cap_pos' = total_frames
    /\ frames_to_process' = SampledFrames(total_frames, total_frames, sample_frames)
    /\ futures' = [t \in 1..Len(frames_to_process') |-> Pending]
    /\ builder' = "objects"
    /\ next_task' = 1
    /\ running' = {}
    /\ gpc' = "pool"
    /\ batch_results' = <<>>
    /\ cursor' = 1
    /\ unique_objects' = <<>>
    /\ object_id_counter' = 0
    /\ gallery' = <<>>
    /\ peak_running' = 0
    /\ UNCHANGED <<width, height, total_frames, enable_zoom, zoom_factor, enable_blur,
                   blur_strength, prev_center_x, prev_center_y, current_zoom,
                   zoom_momentum, pc, frame_count, last_detections, written,
                   released, result, trace, trackVars, envVars, instVars, argVars>>

\* A free worker of the pool takes the next task submitted by executor.map.
WorkerTake ==
    /\ next_task <= Len(futures)
    /\ Cardinality(running) < max_workers
    /\ running' = running \cup {next_task}
    /\ next_task' = next_task + 1
    /\ peak_running' = Max(peak_running, Cardinality(running'))
    /\ UNCHANGED <<builder, frames_to_process, futures, gpc, batch_results, cursor,
                   unique_objects, object_id_counter, gallery, runVars, trackVars,
                   envVars, instVars, argVars>>

\* Workers that hand in their lists in the order in which they finish: the
\* list of worker t goes to the first place not yet filled.
process_frame_batch_as_completed(t) ==
    /\ t \in running
    /\ \E o \in GalleryDetectorOutcomes :
        LET detections == detect_objects_in_frame(o.raw)
            place == Cardinality({u \in 1..Len(futures) : futures[u].done}) + 1
        IN  futures' = [futures EXCEPT ![place] =
                [done |-> TRUE, raises |-> o.raises,
                 batch |-> [i \in 1..Len(detections) |->
                              [frame_count |-> frames_to_process[t],
                               detection |-> detections[i]]]]]
    /\ running' = running \ {t}
    /\ UNCHANGED <<builder, frames_to_process, next_task, gpc, batch_results, cursor,
                   unique_objects, object_id_counter, gallery, peak_running,
                   runVars, trackVars, envVars, instVars, argVars>>

\* process_frame_batch(frame_data) in worker t: detect, return one
\* (frame_count, detection, frame) per detection, or raise.
process_frame_batch(t) ==
    /\ t \in running
    /\ \E o \in GalleryDetectorOutcomes :
        LET detections == detect_objects_in_frame(o.raw)
        IN  futures' = [futures EXCEPT ![t] =
                [done |-> TRUE, raises |-> o.raises,
                 batch |-> [i \in 1..Len(detections) |->
                              [frame_count |-> frames_to_process[t],
                               detection |-> detections[i]]]]]
    /\ running' = running \ {t}
    /\ UNCHANGED <<builder, frames_to_process, next_task, gpc, batch_results, cursor,
                   unique_objects, object_id_counter, gallery, peak_running,
                   runVars, trackVars, envVars, instVars, argVars>>

\* The main thread leaves the pool as soon as the first task is done.
FirstWorkerReturned == IF Len(futures) = 0 THEN TRUE ELSE futures[1].done

\* list(executor.map(...)) has every result and the with block has joined the
\* workers: every task is done.
AllWorkersReturned == \A t \in 1..Len(futures) : futures[t].done

\* The main thread leaves the with block: batch_results holds the workers'
\* lists in the order of the frames, or the first exception propagates.
CollectResults ==
    /\ gpc = "pool"
    /\ AllWorkersReturned
    /\ IF \E t \in 1..Len(futures) : futures[t].raises
       THEN /\ gpc' = "raised"
            /\ batch_results' = <<>>
       ELSE /\ gpc' = "dedup"
            /\ batch_results' = [t \in 1..Len(futures) |-> futures[t].batch]
    /\ UNCHANGED <<builder, frames_to_process, next_task, running, futures, cursor,
                   unique_objects, object_id_counter, gallery, peak_running,
                   runVars, trackVars, envVars, instVars, argVars>>

\* The order in which the nested loops over batch_results visit the candidates.
RECURSIVE Flatten(_)
Flatten(batches) ==
    IF Len(batches) = 0 THEN <<>> ELSE Head(batches) \o Flatten(Tail(batches))

\* The candidate is compared with the last stored entry only.
is_new_object_last_only(obj_img, stored) ==
    Len(stored) = 0 \/ ~_objects_similar_fast(obj_img, stored[Len(stored)].image)

\* is_new_object after the loop over unique_objects.items().
is_new_object(obj_img, stored) ==
    \A i \in 1..Len(stored) : ~_objects_similar_fast(obj_img, stored[i].image)

\* One iteration of the inner loop of extract_objects: skip a small crop,
\* else accept the crop as a new entry or reject it.
DedupCandidate ==
    /\ gpc = "dedup"
    /\ cursor <= Len(Flatten(batch_results))
    /\ LET detection == Flatten(batch_results)[cursor].detection
           w == detection.bbox[3]
           h == detection.bbox[4]
           obj_img == detection.image
       IN  IF (w < min_crop_side \/ h < min_crop_side)
              \/ ~is_new_object(obj_img, unique_objects)
           THEN UNCHANGED <<unique_objects, object_id_counter>>
           ELSE /\ unique_objects' = Append(unique_objects,
                       Entry(object_id_counter, obj_img, detection.class_name))
                /\ object_id_counter' = object_id_counter + 1
    /\ cursor' = cursor + 1
    /\ UNCHANGED <<builder, frames_to_process, next_task, running, futures, gpc,
                   batch_results, gallery, peak_running, runVars, trackVars,
                   envVars, instVars, argVars>>

\* return list(unique_objects.keys())
extract_objects_return ==
    /\ gpc = "dedup"
    /\ cursor > Len(Flatten(batch_results))
    /\ gallery' = Keys(unique_objects)
    /\ gpc' = "returned"
    /\ UNCHANGED <<builder, frames_to_process, next_task, running, futures,
                   batch_results, cursor, unique_objects, object_id_counter,
                   peak_running, runVars, trackVars, envVars, instVars, argVars>>

\* extract_faces, up to its loop: the capture is rewound; the loop will read
\* it to its end.
extract_faces(sample_frames) ==
    /\ gpc = "idle"
    /\ pc = "idle"
    /\ cap_pos' = total_frames
    /\ frames_to_process' = SampledFrames(total_frames, total_frames, sample_frames)
    /\ builder' = "faces"
    /\ gpc' = "faces"
    /\ cursor' = 1
    /\ unique_objects' = <<>>
    /\ object_id_counter' = 0
    /\ gallery' = <<>>
    /\ UNCHANGED <<next_task, running, futures, batch_results, peak_running,
                   width, height, total_frames, enable_zoom, zoom_factor, enable_blur,
                   blur_strength, prev_center_x, prev_center_y, current_zoom,
                   zoom_momentum, pc, frame_count, last_detections, written,
                   released, result, trace, trackVars, envVars, instVars, argVars>>

\* The loop over the faces of one frame: each face is compared with every
\* stored face and stored when none is similar.
RECURSIVE DedupFaces(_, _, _, _)
DedupFaces(faces, i, unique_faces, face_id_counter) ==
    IF i > Len(faces)
    THEN [unique_faces |-> unique_faces, face_id_counter |-> face_id_counter]
    ELSE LET face_img == faces[i].image
             is_new_face == \A k \in 1..Len(unique_faces) :
                                ~_faces_similar(face_img, unique_faces[k].image)
         IN  IF is_new_face
             THEN DedupFaces(faces, i + 1,
                             Append(unique_faces, Entry(face_id_counter, face_img, "face")),
                             face_id_counter + 1)
             ELSE DedupFaces(faces, i + 1, unique_faces, face_id_counter)

\* One sampled frame of the loop of extract_faces: detect the faces, dedup them.
FacesFrame ==
    /\ gpc = "faces"
    /\ cursor <= Len(frames_to_process)
    /\ \E faces \in GalleryFaceLists :
        LET r == DedupFaces(faces, 1, unique_objects, object_id_counter)
        IN  /\ unique_objects' = r.unique_faces
            /\ object_id_counter' = r.face_id_counter
    /\ cursor' = cursor + 1
    /\ UNCHANGED <<builder, frames_to_process, next_task, running, futures, gpc,
                   batch_results, gallery, peak_running, runVars, trackVars,
                   envVars, instVars, argVars>>

\* return list(unique_faces.keys())
extract_faces_return ==
    /\ gpc = "faces"
    /\ cursor > Len(frames_to_process)
    /\ gallery' = Keys(unique_objects)
    /\ gpc' = "returned"
    /\ UNCHANGED <<builder, frames_to_process, next_task, running, futures,
                   batch_results, cursor, unique_objects, object_id_counter,
                   peak_running, runVars, trackVars, envVars, instVars, argVars>>

GalleryInit ==
    /\ ProcessorInit({GalleryFrameSize}, 0..MaxGalleryFrames) /\ TrackerInit
    /\ GalleryIdle
    /\ Constructed({"objects"}, {"mixed"}) /\ SingleInstance

GalleryNext ==
    \/ \E sf \in SampleFrames : extract_objects(sf)
    \/ WorkerTake
    \/ \E t \in running : process_frame_batch(t)
    \/ CollectResults
    \/ DedupCandidate
    \/ extract_objects_return
    \/ \E sf \in SampleFrames : extract_faces(sf)
    \/ FacesFrame
    \/ extract_faces_return

GallerySpec == GalleryInit /\ [][GalleryNext]_vars

\* ------------------------------------------------- runs with a designated target

\* A processor for objects on a video that shows the target's candidates.
TargetedInit ==
    /\ ProcessorInit({TrackFrameSize}, 0..MaxTargetedFrames) /\ TrackerInit
    /\ GalleryIdle
    /\ Constructed({"objects"}, {"candidates"}) /\ SingleInstance

\* The caller designates a gallery entry, enables effects and runs.
TargetedNext ==
    \/ \E id \in TargetIds : pc = "idle" /\ set_target_object_from_detected(id)
    \/ enable_object_zoom(2 * Scale)
    \/ \E bs \in BlurStrengths : enable_object_blur(bs)
    \/ process_and_save
    \/ LoopFrame
    \/ LoopReadFails

TargetedSpec == TargetedInit /\ [][TargetedNext]_vars

\* ------------------------------------------------------------------ claims

InsideFrame(crop, w, h) ==
    /\ 0 <= crop[1]
    /\ crop[1] + crop[3] <= w
    /\ 0 <= crop[2]
    /\ crop[2] + crop[4] <= h

\* The four corners and the middle of a w x h frame.
CameraCenters(w, h) == {<<0, 0>>, <<w, 0>>, <<0, h>>, <<w, h>>, <<w \div 2, h \div 2>>}

\* C1: every crop rectangle _apply_zoom computes lies inside the frame: the ones
\* the run rendered, and the ones it would compute at the zoom the camera has
\* reached for a centre at a corner, in the middle or where the camera is.
C1_CropInsideFrame ==
    /\ \A i \in 1..Len(trace) :
          trace[i].crop # NoCrop => InsideFrame(trace[i].crop, width, height)
    /\ \A c \in CameraCenters(width, height) \cup {<<prev_center_x, prev_center_y>>} :
          LET z == _apply_zoom(width, height, c[1], c[2], current_zoom)
          IN  z.crop # NoCrop => InsideFrame(z.crop, width, height)

\* C2: in every reachable state the camera has zoom >= 1.0 and momentum >= 0.
C2_ZoomAtLeastOne == current_zoom >= Scale /\ zoom_momentum >= 0

\* C3: on every frame without detections (zoom enabled) the zoom ends at 1.0 or
\* above and is strictly smaller than before if it was above 1.0; from one
\* such frame to the next such frame it never increases.
C3_DecayMonotone ==
    \A i \in 1..Len(trace) :
        trace[i].step = "decay" =>
            /\ trace[i].zoom_after >= Scale
            /\ trace[i].zoom_before > Scale => trace[i].zoom_after < trace[i].zoom_before
            /\ (i > 1 /\ trace[i - 1].step = "decay") =>
                   trace[i].zoom_after <= trace[i - 1].zoom_after

\* Two consecutive frames without detections that each lower a zoom above 1.0.
C3_Witness ==
    \E i \in 1..(Len(trace) - 1) :
        /\ trace[i].step = "decay" /\ trace[i + 1].step = "decay"
        /\ trace[i].zoom_before > Scale
        /\ trace[i].zoom_after > Scale
        /\ trace[i + 1].zoom_after < trace[i].zoom_after

\* C4: the detector runs exactly on the frames whose index is a multiple of
\* frame_skip; every other frame is processed with the list the most recent
\* detector run returned.
C4_DetectEveryFrameSkip ==
    \A i \in 1..Len(trace) :
        /\ trace[i].idx = i - 1
        /\ trace[i].invoked <=> ((i - 1) % frame_skip = 0)
        /\ (trace[i].invoked /\ ~trace[i].raised) =>
               trace[i].detections = trace[i].returned
        /\ ~trace[i].invoked =>
               trace[i].detections = trace[i - ((i - 1) % frame_skip)].returned

\* A frame processed with the second detector run's list, which differs from
\* the first run's.
C4_Witness ==
    /\ Len(trace) >= 5
    /\ trace[4].invoked /\ ~trace[5].invoked
    /\ trace[4].returned # trace[1].returned
    /\ trace[4].returned # <<>>
    /\ trace[5].detections = trace[4].returned

\* The frame indices 0 .. n-1 in order.
Iota(n) == [i \in 1..n |-> i - 1]

\* C5: a run in which nothing raises ends in Done; there, every frame the
\* source delivered has been written once, in input order, the sink is
\* released and the run returned True; a source that delivers all its N frames
\* gives N written frames.
C5_RunEndsDone ==
    /\ []((pc = "done") =>
            /\ written = Iota(cap_pos)
            /\ (cap_pos = total_frames => Len(written) = total_frames)
            /\ released
            /\ result = "True")
    /\ []((pc = "failed") => (trace # <<>> /\ trace[Len(trace)].raised))
    /\ ((pc = "loop") ~> (pc \in {"done", "failed"}))

\* A finished run over a whole video of at least four frames.
C5_Witness ==
    /\ pc = "done"
    /\ total_frames >= 4
    /\ cap_pos = total_frames
    /\ Len(written) = total_frames

\* C6: when the detector or the frame step raises on frame k the run is
\* Failed: it returned False, no frame with index >= k was written, no later
\* frame was processed, and no state after it reports success.
C6_RaiseEndsRunFailed ==
    \A i \in 1..Len(trace) :
        trace[i].raised =>
            /\ i = Len(trace)
            /\ pc = "failed"
            /\ result = "False"
            /\ \A j \in 1..Len(written) : written[j] < trace[i].idx

\* The frame step raised on a frame after some frames were written.
C6_Witness ==
    \E i \in 1..Len(trace) :
        /\ trace[i].raised
        /\ trace[i].step = "smooth"
        /\ Len(written) >= 2

\* C7: a run whose frame read failed before the end of the stream reports
\* failure.
C7_EarlyReadFailureReportsFailure ==
    (pc = "done" /\ cap_pos < total_frames) => result = "False"

\* C8: a find_target call with an empty detection list does not raise and
\* returns None, with or without a designated target that has a template; a
\* call in which no candidate is accepted as the match does not raise.
C8_NoMatchNeverRaises ==
    call.op # "none" =>
        /\ call.detections = <<>> => (~call.raised /\ call.value = <<>>)
        /\ ~call.accepted => ~call.raised

\* find_target_object returned None for an empty list while the designated
\* target has a template.
C8_Witness ==
    /\ call.op = "object"
    /\ call.target # None
    /\ call.has_template
    /\ call.detections = <<>>
    /\ call.value = <<>>

\* The dedup check as the builder calls it: the candidate first, the stored
\* entry second.
DedupCheck(candidate, stored) ==
    IF builder = "faces" THEN _faces_similar(candidate, stored)
    ELSE _objects_similar_fast(candidate, stored)

C10_SingleSequentialWriter ==
    [][ /\ (unique_objects' # unique_objects \/ gallery' # gallery) =>
              /\ gpc \in {"dedup", "faces"}
              /\ running = {}
              /\ \A t \in 1..Len(futures) : futures[t].done
              /\ Len(unique_objects') >= Len(unique_objects)
              /\ SubSeq(unique_objects', 1, Len(unique_objects)) = unique_objects
        /\ (gpc = "dedup" /\ cursor' # cursor) =>
              /\ cursor' = cursor + 1
              /\ Len(unique_objects') <= Len(unique_objects) + 1
        /\ (running' # running \/ futures' # futures) =>
              UNCHANGED <<unique_objects, object_id_counter, gallery, cursor>>
      ]_vars

\* The sequential step has accepted two entries from the results of more
\* tasks than the pool has workers, after all workers ran at the same time.
C10_Witness ==
    /\ gpc = "dedup"
    /\ Len(frames_to_process) > max_workers
    /\ peak_running = max_workers
    /\ Len(unique_objects) >= 2

\* The boxes of the detections other than the one the frame step treats as
\* its target.
OtherBoxes(detections) ==
    LET t == fast_target_detection(detections)
    IN  {detections[k].bbox : k \in {j \in 1..Len(detections) : <<detections[j]>> # t}}

\* C11: on every frame processed with blur enabled, a designated target and two
\* or more detections, the blurred regions are exactly the boxes of the
\* detections other than the target of the frame.
C11_BlurAllButTarget ==
    \A i \in 1..Len(trace) :
        (enable_blur /\ target_object_id # None /\ Len(trace[i].detections) >= 2) =>
            {trace[i].blurred[k].bbox : k \in 1..Len(trace[i].blurred)}
                = OtherBoxes(trace[i].detections)

\* C12: enabling blur with an even strength s >= 2 leaves the processor in the
\* state that enabling it with s + 1 leaves it in (s + 1 is stored, and s + 1 is
\* what is stored when s + 1 itself is passed), the blur of every frame is the
\* blur of strength s + 1, and every kernel size handed to the Gaussian blur is
\* odd.
C12_EvenStrengthAsNextOdd ==
    /\ (blur_argument % 2 = 0 /\ blur_argument >= 2) => blur_strength = blur_argument + 1
    /\ blur_argument % 2 = 1 => blur_strength = blur_argument
    /\ blur_strength % 2 = 1
    /\ \A i \in 1..Len(trace) : \A k \in 1..Len(trace[i].blurred) :
           /\ trace[i].blurred[k].kernel % 2 = 1
           /\ blur_argument % 2 = 0 =>
                  trace[i].blurred[k].kernel = blur_kernel_size(blur_argument + 1)

\* Blur was enabled with the even strength 36 and a frame had a region blurred.
C12_Witness ==
    /\ enable_blur /\ blur_argument = 36
    /\ \E i \in 1..Len(trace) : Len(trace[i].blurred) > 0

\* ------------------------------------------------- the end-to-end scenarios

\* A processor of either detection type on a scenario video: each time the
\* detector runs it reports the stationary detection or nothing.
ScenarioInit ==
    /\ ProcessorInit(ScenarioFrameSizes, {ScenarioFrames}) /\ TrackerInit
    /\ GalleryIdle
    /\ Constructed({"faces", "objects"}, {"scenario"}) /\ SingleInstance

ScenarioNext ==
    \/ \E zf \in {2 * Scale, 3 * Scale} : enable_object_zoom(zf)
    \/ process_and_save
    \/ LoopFrame
    \/ LoopReadFails

ScenarioSpec == ScenarioInit /\ [][ScenarioNext]_vars

\* The frame step of the i-th frame worked on the stationary detection.
StationaryAt(i) ==
    /\ ~trace[i].raised
    /\ Len(trace[i].detections) = 1
    /\ trace[i].detections[1].bbox = <<100, 100, 50, 50>>

\* C13: after the ScenarioFrames frames of scenario A (the stationary detection
\* (100,100,50,50) in every frame, zoom_factor 2.0, initial camera), the zoom is
\* within 0.05 of 2.0 and the camera centre is (125,125).
C13_ScenarioA ==
    ( /\ enable_zoom /\ zoom_factor = 2 * Scale
      /\ Len(trace) = ScenarioFrames
      /\ \A i \in 1..ScenarioFrames : StationaryAt(i) ) =>
        /\ current_zoom >= 2 * Scale - Scale \div 20
        /\ current_zoom <= 2 * Scale + Scale \div 20
        /\ <<prev_center_x, prev_center_y>> = <<125, 125>>

\* The detector reported a detection whenever it ran on frames 1..ScenarioHalf
\* and none whenever it ran on the later frames; no frame step raised.
ScenarioBRun ==
    /\ Len(trace) = ScenarioFrames
    /\ \A i \in 1..ScenarioFrames :
           /\ ~trace[i].raised
           /\ (trace[i].invoked /\ i <= ScenarioHalf) => Len(trace[i].returned) > 0
           /\ (trace[i].invoked /\ i > ScenarioHalf) => Len(trace[i].returned) = 0

\* C14: in scenario B (zoom_factor 3.0, detections reported on frames
\* 1..ScenarioHalf and none later, cached detections reused on the skipped
\* frames) the zoom after the last frame is strictly less than the zoom after
\* frame ScenarioHalf.
C14_ScenarioB ==
    (enable_zoom /\ zoom_factor = 3 * Scale /\ ScenarioBRun) =>
        trace[ScenarioFrames].zoom_after < trace[ScenarioHalf].zoom_after

\* ------------------------------------------------------------ construction

\* ObjectProcessor(input_video_path, detection_type): before the call
\* detection_type holds the argument; the call lowers it and builds the
\* detector or raises ImportError, and then sets the fields of the processor
\* (here already at the values the call gives them).
__init__ ==
    /\ pc = "new"
    /\ LET built == build_detector(lower(detection_type), available)
       IN  /\ detection_type' = lower(detection_type)
           /\ detector' = built.detector
           /\ pc' = IF built.raised THEN "raised" ELSE "idle"
    /\ UNCHANGED <<width, height, total_frames, cap_pos, enable_zoom, zoom_factor,
                   enable_blur, blur_strength, prev_center_x, prev_center_y,
                   current_zoom, zoom_momentum, frame_count, last_detections,
                   written, released, result, trace, available, video,
                   trackVars, galVars, instVars, argVars>>

\* A caller about to construct a processor, with any of the packages
\* installed and any detection_type argument.
ConstructInit ==
    /\ ProcessorFields(FrameSizes, {0}) /\ pc = "new"
    /\ TrackerInit /\ GalleryIdle /\ SingleInstance
    /\ available \in SUBSET Packages
    /\ detection_type \in DetectionTypes
    /\ detector = "none"
    /\ video = "mixed"

ConstructNext ==
    \/ __init__
    \/ \E zf \in ZoomFactors : enable_object_zoom(zf)
    \/ \E bs \in BlurStrengths : enable_object_blur(bs)

ConstructSpec == ConstructInit /\ [][ConstructNext]_vars

\* The packages a detector of the lowered detection_type dtype can be built
\* on, and the detectors built on them.
DependenciesOf(dtype) ==
    IF dtype = "faces" THEN {"mediapipe", "mtcnn"} ELSE {"ultralytics"}

DetectorsOf(dtype) ==
    IF dtype = "faces" THEN {"mediapipe", "mtcnn"} ELSE {"yolo"}

\* C15: when no package the requested detection type depends on is installed,
\* construction raises, for detection_type 'faces' and for the object types
\* alike; a processor that was constructed has a detector built on a package
\* of its detection type, never a substitute.
C15_FailFastOnMissingDependency ==
    pc # "new" =>
        /\ (DependenciesOf(detection_type) \cap available = {}) => pc = "raised"
        /\ pc # "raised" => detector \in DetectorsOf(detection_type)

\* C16: a non-positive zoom_factor is rejected when it is supplied, so zoom is
\* never enabled with one, and no frame of any run is processed with
\* zoom_factor <= 0.
C16_NonPositiveZoomRejected ==
    /\ enable_zoom => zoom_factor > 0
    /\ (enable_zoom /\ Len(trace) > 0) => zoom_factor > 0

\* ------------------------------------------------- two processor instances

\* The length of the videos two instances run on at the same time.
TwoRunFrames == 2

\* Everything the instance that is being stepped keeps in its own attributes
\* (ObjectProcessor.__init__ and the ObjectTracker it creates), with its
\* history.
ThisInstance ==
    [width |-> width, height |-> height, total_frames |-> total_frames,
     cap_pos |-> cap_pos, enable_zoom |-> enable_zoom, zoom_factor |-> zoom_factor,
     enable_blur |-> enable_blur, blur_strength |-> blur_strength,
     prev_center_x |-> prev_center_x, prev_center_y |-> prev_center_y,
     current_zoom |-> current_zoom, zoom_momentum |-> zoom_momentum, pc |-> pc,
     frame_count |-> frame_count, last_detections |-> last_detections,
     written |-> written, released |-> released, result |-> result, trace |-> trace,
     target_object_id |-> target_object_id, object_templates |-> object_templates,
     object_centers_history |-> object_centers_history,
     target_face_id |-> target_face_id, face_templates |-> face_templates,
     call |-> call, n_calls |-> n_calls, target_source |-> target_source,
     detection_type |-> detection_type, detector |-> detector, video |-> video,
     blur_argument |-> blur_argument, runs |-> runs]

\* Two instances whose camera and centre histories are one object shared by
\* both.
SwitchInstanceSharedState ==
    /\ other' = ThisInstance
    /\ current' = 3 - current
    /\ width' = other.width
    /\ height' = other.height
    /\ total_frames' = other.total_frames
    /\ cap_pos' = other.cap_pos
    /\ enable_zoom' = other.enable_zoom
    /\ zoom_factor' = other.zoom_factor
    /\ enable_blur' = other.enable_blur
    /\ blur_strength' = other.blur_strength
    /\ pc' = other.pc
    /\ frame_count' = other.frame_count
    /\ last_detections' = other.last_detections
    /\ written' = other.written
    /\ released' = other.released
    /\ result' = other.result
    /\ trace' = other.trace
    /\ target_object_id' = other.target_object_id
    /\ object_templates' = other.object_templates
    /\ target_face_id' = other.target_face_id
    /\ face_templates' = other.face_templates
    /\ call' = other.call
    /\ n_calls' = other.n_calls
    /\ target_source' = other.target_source
    /\ detection_type' = other.detection_type
    /\ detector' = other.detector
    /\ video' = other.video
    /\ blur_argument' = other.blur_argument
    /\ runs' = other.runs
    /\ UNCHANGED <<prev_center_x, prev_center_y, current_zoom, zoom_momentum, object_centers_history,
                   available, galVars>>

\* The thread of control passes to the other instance: the attributes of the
\* running instance are put aside and those of the other are worked on.
SwitchInstance ==
    /\ other' = ThisInstance
    /\ current' = 3 - current
    /\ width' = other.width
    /\ height' = other.height
    /\ total_frames' = other.total_frames
    /\ cap_pos' = other.cap_pos
    /\ enable_zoom' = other.enable_zoom
    /\ zoom_factor' = other.zoom_factor
    /\ enable_blur' = other.enable_blur
    /\ blur_strength' = other.blur_strength
    /\ prev_center_x' = other.prev_center_x
    /\ prev_center_y' = other.prev_center_y
    /\ current_zoom' = other.current_zoom
    /\ zoom_momentum' = other.zoom_momentum
    /\ pc' = other.pc
    /\ frame_count' = other.frame_count
    /\ last_detections' = other.last_detections
    /\ written' = other.written
    /\ released' = other.released
    /\ result' = other.result
    /\ trace' = other.trace
    /\ target_object_id' = other.target_object_id
    /\ object_templates' = other.object_templates
    /\ object_centers_history' = other.object_centers_history
    /\ target_face_id' = other.target_face_id
    /\ face_templates' = other.face_templates
    /\ call' = other.call
    /\ n_calls' = other.n_calls
    /\ target_source' = other.target_source
    /\ detection_type' = other.detection_type
    /\ detector' = other.detector
    /\ video' = other.video
    /\ blur_argument' = other.blur_argument
    /\ runs' = other.runs
    /\ UNCHANGED <<available, galVars>>

\* A caller's object_tracker.find_target_object on the detections of the frame
\* the run is at.
TrackLastDetections ==
    /\ pc = "loop"
    /\ Len(last_detections) > 0
    /\ n_calls < MaxCalls
    /\ LET r == find_target_object(last_detections, width, height, target_object_id,
                                   object_templates,
                                   IF target_object_id \in TargetIds
                                   THEN object_centers_history[target_object_id]
                                   ELSE <<>>)
       IN  /\ call' = [op |-> "object", target |-> target_object_id,
                       has_template |-> target_object_id \in object_templates,
                       detections |-> last_detections, raised |-> r.raised,
                       value |-> r.value, accepted |-> r.accepted,
                       source |-> target_source,
                        last_center |-> _get_last_center(IF target_object_id \in TargetIds
                                                          THEN object_centers_history[target_object_id]
                                                          ELSE <<>>)]
           /\ object_centers_history' =
                 IF target_object_id \in TargetIds
                 THEN [object_centers_history EXCEPT ![target_object_id] = r.history]
                 ELSE object_centers_history
    /\ n_calls' = n_calls + 1
    /\ UNCHANGED <<target_object_id, object_templates, target_face_id, face_templates,
                   target_source, runVars, galVars, envVars, instVars, argVars>>

\* Two processors constructed on two videos of the same size.
TwoRunsInit ==
    /\ ProcessorInit({TrackFrameSize}, {TwoRunFrames}) /\ TrackerInit
    /\ GalleryIdle
    /\ Constructed({"objects"}, {"candidates"})
    /\ current = 1
    /\ other = ThisInstance

TwoRunsNext ==
    \/ enable_object_zoom(2 * Scale)
    \/ pc = "idle" /\ set_target_object_from_detected("person_0")
    \/ process_and_save
    \/ LoopFrame
    \/ LoopReadFails
    \/ TrackLastDetections
    \/ SwitchInstance

TwoRunsSpec == TwoRunsInit /\ [][TwoRunsNext]_vars

\* The camera states in the frame records tr of a run are those of the run on
\* its own: the first frame starts from the initial camera of a w x h video,
\* every frame from the camera the run's previous frame left, and ends at the
\* camera _process_frame_fast computes from it and the frame's detections.
RanAlone(tr, w, h, ez, zf, eb, bs) ==
    \A i \in 1..Len(tr) :
        LET before == IF i = 1 THEN Camera(w \div 2, h \div 2, Scale, 0)
                      ELSE Camera(tr[i - 1].center[1], tr[i - 1].center[2],
                                  tr[i - 1].zoom_after, 0)
            r == _process_frame_fast(w, h, before, ez, zf, eb, bs, tr[i].detections)
        IN  /\ tr[i].zoom_before = before.current_zoom
            /\ ~tr[i].raised =>
                  /\ tr[i].zoom_after = r.cam.current_zoom
                  /\ tr[i].center = <<r.cam.prev_center_x, r.cam.prev_center_y>>

\* C17: with the frames of two runs on two instances interleaved in any order,
\* the camera states of each run are those of the run on its own, a step of
\* one instance leaves the other instance (camera, tracker centre histories and
\* all) as it was, and an instance is resumed exactly as it was left.
C17_RunsDoNotInterfere ==
    /\ [](/\ RanAlone(trace, width, height, enable_zoom, zoom_factor, enable_blur,
                       blur_strength)
          /\ RanAlone(other.trace, other.width, other.height, other.enable_zoom,
                      other.zoom_factor, other.enable_blur, other.blur_strength))
    /\ [][current' = current => other' = other]_vars
    /\ [][current' # current => (other' = ThisInstance /\ ThisInstance' = other)]_vars

\* Both runs are in the middle of their videos, each with a frame processed
\* and its camera moved, and the parked instance's tracker has a centre history.
C17_Witness ==
    /\ pc = "loop" /\ Len(trace) = 1 /\ current_zoom > Scale
    /\ other.pc = "loop" /\ Len(other.trace) = 1 /\ other.current_zoom > Scale
    /\ Len(other.object_centers_history["person_0"]) > 0
    /\ other.trace[1].detections # trace[1].detections

\* C18: once set_target_object_from_image has returned a target id, the tracker
\* holds a template of that target, and a find_target_object call with
\* detections made while that designation stands scores the detections against
\* the template instead of taking the path for a target without one.
C18_ReferenceImageGivesTemplate ==
    /\ target_source = "image" => target_object_id \in object_templates
    /\ (call.op = "object" /\ call.source = "image" /\ Len(call.detections) > 0) =>
           call.has_template

\* What object_tracker.find_target_object returns for the designated target on
\* the detections of a frame.
TrackerChoice(detections) ==
    find_target_object(detections, width, height, target_object_id, object_templates,
                       IF target_object_id \in TargetIds
                       THEN object_centers_history[target_object_id]
                       ELSE <<>>).value

\* C19: every iteration of the loop tracks between detecting (or reusing) and
\* rendering: with a target designated and zoom enabled, the detection handed
\* to the camera on a frame with detections is the one the tracker returns for
\* that frame.
C19_CameraFollowsTrackerChoice ==
    \A i \in 1..Len(trace) :
        ( /\ target_object_id # None /\ enable_zoom
          /\ ~trace[i].raised /\ Len(trace[i].detections) > 0 ) =>
            trace[i].target = TrackerChoice(trace[i].detections)

\* C20: with zoom enabled the camera is advanced exactly once on every
\* processed frame: by an update towards a detection when the frame has one or
\* more detections, whatever their labels ('face' included), and by a decay
\* step when it has none.
C20_CameraAdvancedEveryFrame ==
    \A i \in 1..Len(trace) :
        (enable_zoom /\ ~trace[i].raised) =>
            /\ Len(trace[i].detections) > 0 => trace[i].step = "smooth"
            /\ Len(trace[i].detections) = 0 => trace[i].step = "decay"

\* C21: a find_target_object call made with detections while no target is
\* designated, or while the designated target has no template, returns a
\* detection of the list with the largest confidence x area of all detections.
C21_DefaultIsMostProminent ==
    ( /\ call.op = "object" /\ ~call.has_template
      /\ Len(call.detections) > 0 /\ ~call.raised ) =>
        /\ Len(call.value) = 1
        /\ \E k \in 1..Len(call.detections) : call.detections[k] = call.value[1]
        /\ \A k \in 1..Len(call.detections) :
               ConfArea(call.detections[k]) <= ConfArea(call.value[1])

\* The score the tracker is to rank a candidate by, in 1/1000000: 0.6 x its
\* appearance similarity + 0.4 x its positional continuity.
BlendedScore(d, last_center) ==
    60 * feature_score(d) * 100 + 40 * position_score(d, last_center, width, height)

\* The candidates of a call that have a region on the frame to score.
Scored(detections) ==
    {k \in 1..Len(detections) : ~RegionEmpty(detections[k].bbox, width, height)}

\* C22: a find_target_object call for a designated target with a template
\* returns the candidate with the highest 0.6 / 0.4 blended score when that
\* score exceeds 0.3, and the default selection otherwise.
C22_BestBlendedScoreWins ==
    (call.op = "object" /\ call.has_template /\ ~call.raised) =>
        LET dets == call.detections
            Above == {k \in Scored(dets) : BlendedScore(dets[k], call.last_center) > 300000}
        IN  IF Above # {}
            THEN /\ call.accepted
                 /\ \E k \in Above :
                       /\ call.value = <<dets[k]>>
                       /\ \A j \in Scored(dets) :
                             BlendedScore(dets[j], call.last_center)
                                 <= BlendedScore(dets[k], call.last_center)
            ELSE /\ ~call.accepted
                 /\ call.value = _find_largest_person(dets).value

\* Scenario C: two candidates at the same distance from the last centre with
\* similarities 0.1 and 0.9; the call returned the second.
C22_Witness ==
    /\ call.op = "object" /\ call.has_template /\ call.accepted
    /\ call.last_center = <<(<<30, 20>>)>>
    /\ Len(call.detections) = 2
    /\ call.detections[1].corr = 10 /\ call.detections[2].corr = 90
    /\ Center(call.detections[1].bbox) = <<20, 20>>
    /\ Center(call.detections[2].bbox) = <<40, 20>>
    /\ call.value = <<call.detections[2]>>

\* ---------------------------------------------------- a long-tracked target

\* The centre history of a target that was matched on nine earlier frames.
PriorCenters ==
    << <<30, 20>>, <<40, 20>>, <<30, 20>>, <<40, 20>>, <<30, 20>>,
       <<40, 20>>, <<30, 20>>, <<40, 20>>, <<30, 20>> >>

\* A processor whose target 'person_0' was designated from the gallery and has
\* been tracked on no frame yet or on nine frames; call and n_calls record the
\* calls made from here on.
HistoryInit ==
    /\ ProcessorInit({TrackFrameSize}, {0}) /\ GalleryIdle
    /\ Constructed({"objects"}, {"mixed"}) /\ SingleInstance
    /\ target_object_id = "person_0"
    /\ object_templates = {"person_0"}
    /\ target_source = "detected"
    /\ \E prior \in {<<>>, PriorCenters} :
          object_centers_history =
              [id \in TargetIds |-> IF id = "person_0" THEN prior ELSE <<>>]
    /\ target_face_id = None
    /\ face_templates = {}
    /\ call = [op |-> "none", target |-> None, has_template |-> FALSE,
               detections |-> <<>>, raised |-> FALSE, value |-> <<>>,
               accepted |-> FALSE, source |-> "none", last_center |-> <<>>]
    /\ n_calls = 0

HistoryNext ==
    \/ \E id \in TargetIds : set_target_object_from_detected(id)
    \/ FindTargetObject

HistorySpec == HistoryInit /\ [][HistoryNext]_vars

\* C23: the centre history of a target never has more than 10 entries, and a
\* find_target_object call that accepts a match appends the centre of the
\* accepted detection to the target's history, dropping the oldest entry when
\* the history already has 10: the history holds the centres of the most
\* recently accepted matches in acceptance order and ends with the latest.
C23_CenterHistoryKeepsLastTen ==
    /\ [](\A id \in TargetIds : Len(object_centers_history[id]) <= 10)
    /\ [][(n_calls' = n_calls + 1 /\ call'.op = "object" /\ call'.accepted) =>
            LET h == object_centers_history[call'.target]
                c == Center(call'.value[1].bbox)
            IN  object_centers_history'[call'.target] =
                    IF Len(h) < 10 THEN Append(h, c) ELSE Append(Tail(h), c)]_vars

\* Two matches were accepted after the nine earlier ones: the history has 10
\* entries, the oldest earlier centre is gone and the last entry is the centre
\* of the detection the last call accepted.
C23_Witness ==
    /\ call.op = "object" /\ call.accepted /\ call.target = "person_0"
    /\ Len(object_centers_history["person_0"]) = 10
    /\ object_centers_history["person_0"][8] = PriorCenters[9]
    /\ object_centers_history["person_0"][10] = Center(call.value[1].bbox)

\* C24: no find_target call changes which target is designated or the
\* templates the trackers hold, and a call that accepts no match (empty
\* detections, or the fallback when no candidate is above the threshold) leaves
\* every centre history as it was.
C24_NoMatchLeavesTargetUnchanged ==
    [][n_calls' = n_calls + 1 =>
          /\ object_templates' = object_templates
          /\ face_templates' = face_templates
          /\ target_object_id' = target_object_id
          /\ target_face_id' = target_face_id
          /\ ~call'.accepted => object_centers_history' = object_centers_history]_vars

\* A call for a target with a template and a centre history fell back to the
\* default selection on a frame with detections.
C24_Witness ==
    /\ call.op = "object" /\ call.has_template /\ ~call.accepted /\ ~call.raised
    /\ Len(call.detections) > 0 /\ Len(call.value) > 0
    /\ Len(call.last_center) > 0
    /\ object_centers_history[call.target] = <<call.last_center[1]>>

\* ------------------------------------------------ runs on the same processor

\* One processor on a short video, run and run again.
RerunInit ==
    /\ ProcessorInit({<<250, 250>>, <<640, 480>>}, 1..MaxTargetedFrames) /\ TrackerInit
    /\ GalleryIdle
    /\ Constructed({"objects"}, {"scenario"}) /\ SingleInstance

RerunNext ==
    \/ \E zf \in {Scale, 2 * Scale} : enable_object_zoom(zf)
    \/ \E zf \in {Scale, 2 * Scale} : enable_object_zoom_again(zf)
    \/ process_and_save
    \/ process_and_save_again
    \/ LoopFrame
    \/ LoopReadFails

RerunSpec == RerunInit /\ [][RerunNext]_vars

\* C25: when a process_and_save run is about to read its first frame, the
\* camera is the initial one (centre at the frame centre, zoom 1.0, momentum
\* 0), in the first run on a processor and in every later one.
C25_RunStartsFromInitialCamera ==
    (pc = "loop" /\ cap_pos = 0 /\ Len(trace) = 0) =>
        CameraNow = Camera(width \div 2, height \div 2, Scale, 0)

\* The centre of a w x h frame.
FrameCenter == <<width \div 2, height \div 2>>

\* C26: on every frame without a detection (zoom enabled) each coordinate of
\* the camera centre that differs from the frame centre's moves strictly
\* closer to it.
C26_DecayPullsCenterCloser ==
    \A i \in 2..Len(trace) :
        (trace[i].step = "decay" /\ ~trace[i].raised) =>
            \A a \in 1..2 :
                trace[i - 1].center[a] # FrameCenter[a] =>
                    Abs(trace[i].center[a] - FrameCenter[a])
                        < Abs(trace[i - 1].center[a] - FrameCenter[a])

\* C27: on every frame of a run on which the camera is moved towards a
\* detection, the zoom becomes 0.88 x the previous zoom + 0.12 x zoom_factor
\* (to the last digit kept) and the momentum is updated by
\* 0.85 x momentum + 0.15 x momentum_factor, which leaves it positive.
C27_MomentumRuleOnMatchedFrames ==
    \A i \in 1..Len(trace) :
        (trace[i].step = "smooth" /\ ~trace[i].raised) =>
            /\ Abs(100 * trace[i].zoom_after
                     - (88 * trace[i].zoom_before + 12 * zoom_factor)) <= 100
            /\ i = Len(trace) => zoom_momentum > 0

\* C28: while a run is in its loop with zoom enabled and a zoom_factor of 1.0
\* or more, the camera zoom is at least 1.0 and at most zoom_factor, whatever
\* the order of frames with and without detections.
C28_ZoomWithinConfiguredRange ==
    (pc = "loop" /\ enable_zoom /\ zoom_factor >= Scale) =>
        (current_zoom >= Scale /\ current_zoom <= zoom_factor)

\* The entries a single thread stores when it visits the candidates
\* cands[i..n] one after the other, starting from the entries stored.
RECURSIVE StoredAfter(_, _, _, _)
StoredAfter(cands, i, n, stored) ==
    IF i > n THEN stored
    ELSE LET d == cands[i].detection
         IN  IF d.bbox[3] >= 20 /\ d.bbox[4] >= 20 /\ is_new_object(d.image, stored)
             THEN StoredAfter(cands, i + 1, n,
                              Append(stored, Entry(Len(stored), d.image, d.class_name)))
             ELSE StoredAfter(cands, i + 1, n, stored)

\* C29: whatever the order in which the workers of extract_objects ran and
\* finished, the lists the main thread works on are the detector's lists of the
\* sampled frames in the order of the frames, and the entries stored (which
\* candidates, their ids, their order) and the gallery returned are those a
\* single thread gets from these lists.
C29_GalleryIndependentOfScheduling ==
    (builder = "objects" /\ gpc \in {"dedup", "returned"}) =>
        LET cands == Flatten(batch_results)
        IN  /\ Len(batch_results) = Len(frames_to_process)
            /\ \A t \in 1..Len(batch_results) : \A i \in 1..Len(batch_results[t]) :
                   batch_results[t][i].frame_count = frames_to_process[t]
            /\ unique_objects = StoredAfter(cands, 1, cursor - 1, <<>>)
            /\ gpc = "returned" =>
                   gallery = Keys(StoredAfter(cands, 1, Len(cands), <<>>))

\* A gallery of two entries or more was returned after workers ran at the
\* same time on frames with detections.
C29_Witness ==
    /\ builder = "objects" /\ gpc = "returned"
    /\ Len(gallery) >= 2
    /\ peak_running >= 2
    /\ \E t \in 1..Len(batch_results) : \E u \in 1..Len(batch_results) :
           t # u /\ Len(batch_results[t]) > 0 /\ Len(batch_results[u]) > 0

\* C30: on a frame without detections (zoom enabled) the zoom either arrives
\* at exactly 1.0 or drops to 0.92 of its value or less, and it arrives at 1.0
\* as soon as 0.92 of it is not above 1.0, so a stretch of such frames brings
\* any zoom to exactly 1.0 after finitely many frames; a frame that ends at
\* zoom 1.0 is written uncropped, and the next frame without detections starts
\* and ends at 1.0 again.
C30_DecayReachesOneAndStays ==
    \A i \in 1..Len(trace) :
        (trace[i].step = "decay") =>
            /\ trace[i].zoom_after = Scale
                  \/ 100 * trace[i].zoom_after <= 92 * trace[i].zoom_before
            /\ 92 * trace[i].zoom_before <= 100 * Scale => trace[i].zoom_after = Scale
            /\ trace[i].zoom_after = Scale =>
                  (~trace[i].raised /\ trace[i].crop = NoCrop)
            /\ (i > 1 /\ trace[i - 1].step = "decay" /\ trace[i - 1].zoom_after = Scale) =>
                  trace[i].zoom_before = Scale

\* The zoom rose above 1.0 on frames with a detection, came down to exactly
\* 1.0 over three frames without one, and the frame after was written
\* uncropped at zoom 1.0.
C30_Witness ==
    \E i \in 4..Len(trace) :
        /\ \A k \in (i - 3)..i : trace[k].step = "decay"
        /\ trace[i - 3].zoom_before > Scale
        /\ trace[i - 2].zoom_after > Scale
        /\ trace[i - 1].zoom_before > Scale /\ trace[i - 1].zoom_after = Scale
        /\ trace[i].zoom_before = Scale /\ trace[i].zoom_after = Scale
        /\ trace[i].crop = NoCrop /\ Len(written) = Len(trace)

====
